---- MODULE Spec2Model ----
(***************************************************************************)
(* A model of the case-study repository:                                   *)
(*   - src/app.py: the in-memory Ideas API (GET /health, GET /ideas,       *)
(*     POST /ideas), specification Spec;                                   *)
(*   - src/ai-devops/analyze_deployment.py: one run of main, with every    *)
(*     external call (kubectl, CloudWatch, the completion service) a       *)
(*     nondeterministic input, specification SpecMain;                     *)
(*   - the functions of log_analyzer.py, replica_suggester.py and          *)
(*     analyze_deployment.py applied to bounded inputs, specification      *)
(*     SpecFn.                                                             *)
(***************************************************************************)
EXTENDS Integers, Sequences, FiniteSets, TLC

VARIABLES
    \* src/app.py
    ideas_storage,   \* the module-level list of idea dictionaries
    request,         \* the request being answered
    response,        \* the response the handler returned
    created,         \* history: the ideas returned by POST /ideas, in order
    \* src/ai-devops/analyze_deployment.py, one run of main
    pc,              \* position of main
    env_key,         \* os.getenv("OPENAI_API_KEY")
    openai_available,\* OPENAI_AVAILABLE of log_analyzer / replica_suggester
    health,          \* local `health`
    logs,            \* local `logs`
    analysis,        \* local `analysis`
    rollback,        \* local `rollback`
    metrics,         \* local `metrics`
    suggestion,      \* local `suggestion`
    calls,           \* history: the external calls performed, in order
    out,             \* history: the lines printed, in order (by marker)
    exit_code,       \* the process exit status
    \* the functions applied to bounded inputs
    fn               \* the last call: its name, arguments and outcome

apiVars  == <<ideas_storage, request, response, created>>
mainVars == <<pc, env_key, openai_available, health, logs, analysis, rollback,
              metrics, suggestion, calls, out, exit_code>>
vars     == <<apiVars, mainVars, fn>>

\* ------------------------------------------------------------------ bounds
MaxCreated  == 3   \* POST /ideas requests in one behaviour
MaxErrors   == 5   \* longest 'errors' list of an analysis
MaxReplicas == 2   \* largest replica count kubectl reports

\* ------------------------------------------------------------ JSON values
\* A JSON string-or-null value (Optional[str]): None is JNull.
JNull   == [null |-> TRUE,  str |-> ""]
JStr(s) == [null |-> FALSE, str |-> s]

Range(s) == {s[i] : i \in DOMAIN s}

\* max(xs, default=d)
MaxOf(S, d) == IF S = {} THEN d ELSE CHOOSE m \in S : \A x \in S : x <= m

\* =================================================================== app.py
Titles       == {"Test Idea", ""}
Descriptions == {JNull, JStr(""), JStr("This is a test description")}

\* class Idea(BaseModel): title: str; description: Optional[str] = None
Idea == [title : Titles, description : Descriptions]

\* ideas_storage as the module sets it
SeedIdeas ==
    << [id |-> 1, title |-> "Build microservices architecture",
        description |-> JStr("Modern cloud-native approach")],
       [id |-> 2, title |-> "Implement CI/CD pipeline",
        description |-> JStr("Automate deployments")],
       [id |-> 3, title |-> "Add monitoring and observability",
        description |-> JStr("Track application metrics")] >>

NoMessage == [endpoint |-> "none"]

\* new_id = max([i["id"] for i in ideas_storage], default=0) + 1
NewIdSameAsMax(storage) == MaxOf({storage[i].id : i \in DOMAIN storage}, 0)
NewId(storage) == MaxOf({storage[i].id : i \in DOMAIN storage}, 0) + 1

\* idea.description or ""
DescriptionOrEmptyKeepsNone(d) == d
DescriptionOrEmpty(d) == IF d.null \/ d.str = "" THEN JStr("") ELSE d

\* new_idea = {"id": new_id, "title": idea.title, "description": ...}
NewIdea(storage, idea) ==
    [id |-> NewId(storage), title |-> idea.title,
     description |-> DescriptionOrEmpty(idea.description)]

\* ideas_storage.append(new_idea)
StoreFirst(storage, new_idea) == <<new_idea>> \o storage
Store(storage, new_idea) == Append(storage, new_idea)

\* the body GET /ideas returns
IdeasBody(storage) == [ideas |-> storage, count |-> Len(storage)]

\* the body GET /health returns
HealthBodyDegraded(storage) ==
    [status |-> IF Len(storage) > Len(SeedIdeas) + 1 THEN "busy" ELSE "ok"]
HealthBody(storage) == [status |-> "ok"]

InitApi ==
    /\ ideas_storage = SeedIdeas
    /\ request = NoMessage
    /\ response = NoMessage
    /\ created = <<>>

\* @app.get("/health")
health_check ==
    /\ request' = [endpoint |-> "GET /health"]
    /\ response' = [endpoint |-> "GET /health", status |-> 200,
                    body |-> HealthBody(ideas_storage)]
    /\ UNCHANGED <<ideas_storage, created>>

\* @app.get("/ideas")
get_ideas ==
    /\ request' = [endpoint |-> "GET /ideas"]
    /\ response' = [endpoint |-> "GET /ideas", status |-> 200,
                    body |-> IdeasBody(ideas_storage)]
    /\ UNCHANGED <<ideas_storage, created>>

\* @app.post("/ideas")
create_idea ==
    /\ Len(created) < MaxCreated
    /\ \E idea \in Idea :
         LET new_idea == NewIdea(ideas_storage, idea) IN
           /\ ideas_storage' = Store(ideas_storage, new_idea)
           /\ request' = [endpoint |-> "POST /ideas", body |-> idea]
           /\ response' = [endpoint |-> "POST /ideas", status |-> 200,
                           body |-> [message |-> "Idea created successfully",
                                     idea |-> new_idea]]
           /\ created' = Append(created, new_idea)

\* ========================================================= Python values
\* An environment variable or an api_key argument: JNull is None.
Keys == {JNull, JStr(""), JStr("sk-test")}

\* `if not api_key`: None and the empty string are falsy
Truthy(k) == ~k.null /\ k.str # ""

\* A str is a tuple of characters, so that upper() is a conversion. The
\* characters are those of ASCII, each written as itself, and the characters
\* outside ASCII whose upper case is made of ASCII letters, each written as
\* its code point ("U+0131" is the dotless i).
LowerLetters ==
    <<"a", "b", "c", "d", "e", "f", "g", "h", "i", "j", "k", "l", "m",
      "n", "o", "p", "q", "r", "s", "t", "u", "v", "w", "x", "y", "z">>
UpperLetters ==
    <<"A", "B", "C", "D", "E", "F", "G", "H", "I", "J", "K", "L", "M",
      "N", "O", "P", "Q", "R", "S", "T", "U", "V", "W", "X", "Y", "Z">>

\* the upper case of the characters outside ASCII; some are two or three letters
SpecialUpper ==
    [c \in {"U+00DF", "U+0131", "U+017F", "U+FB00", "U+FB01", "U+FB02",
            "U+FB03", "U+FB04", "U+FB05", "U+FB06"} |->
        CASE c = "U+00DF" -> <<"S", "S">>
          [] c = "U+0131" -> <<"I">>
          [] c = "U+017F" -> <<"S">>
          [] c = "U+FB00" -> <<"F", "F">>
          [] c = "U+FB01" -> <<"F", "I">>
          [] c = "U+FB02" -> <<"F", "L">>
          [] c = "U+FB03" -> <<"F", "F", "I">>
          [] c = "U+FB04" -> <<"F", "F", "L">>
          [] c = "U+FB05" -> <<"S", "T">>
          [] c = "U+FB06" -> <<"S", "T">>]

\* the upper case of one character, as a string
UpperChar(c) ==
    IF \E i \in DOMAIN LowerLetters : LowerLetters[i] = c
    THEN <<UpperLetters[CHOOSE i \in DOMAIN LowerLetters : LowerLetters[i] = c]>>
    ELSE IF c \in DOMAIN SpecialUpper THEN SpecialUpper[c]
    ELSE <<c>>

\* str.upper()
RECURSIVE Upper(_)
Upper(s) == IF s = <<>> THEN <<>> ELSE UpperChar(Head(s)) \o Upper(Tail(s))

CRITICAL == <<"C", "R", "I", "T", "I", "C", "A", "L">>
HIGH     == <<"H", "I", "G", "H">>

\* The value under a dictionary key that is read as a string:
\* absent, a str, or a JSON value that is no str (null, a number, a list).
NoStr        == [k |-> "missing", s |-> <<>>]
StrVal(s)    == [k |-> "str", s |-> s]
NonStr       == [k |-> "nonstr", s |-> <<>>]

\* The value under a dictionary key that is read with len():
\* absent, a list of n entries, or a JSON value without a length (null, a number).
NoList       == [k |-> "missing", n |-> 0]
ListOf(n)    == [k |-> "list", n |-> n]
NonSized     == [k |-> "nonsized", n |-> 0]

\* The value under a dictionary key that is read as a number:
\* absent, an integer, or null.
NoNum        == [k |-> "missing", n |-> 0]
Num(n)       == [k |-> "int", n |-> n]
NullNum      == [k |-> "null", n |-> 0]

SeverityStrings ==
    { <<>>, CRITICAL, HIGH,
      <<"c", "r", "i", "t", "i", "c", "a", "l">>,
      <<"C", "r", "i", "t", "i", "c", "a", "l">>,
      <<"h", "i", "g", "h">>, <<"H", "i", "g", "h">>,
      <<"h", "i", "g", "h", "e", "r">>, <<"H", "I", "G", "H", " ">>,
      <<"M", "E", "D", "I", "U", "M">>, <<"m", "e", "d", "i", "u", "m">>,
      <<"L", "O", "W">>, <<"l", "o", "w">>,
      <<"u", "n", "k", "n", "o", "w", "n">>,
      <<"h", "U+0131", "g", "h">>, <<"C", "R", "U+0131", "T", "I", "C", "A", "L">>,
      <<"h", "U+FB01", "g", "h">> }

Severities == {NoStr, NonStr} \cup {StrVal(s) : s \in SeverityStrings}
ErrorLists == {NoList, NonSized} \cup {ListOf(n) : n \in 0..MaxErrors}

\* What json.loads returns for the reply the analysis prompt asks for: a
\* dictionary (with or without the keys error, severity, errors, warnings),
\* or JSON that is no dictionary: a list or string (kind "list": `in` works,
\* .get does not), a number, boolean or null (kind "scalar": `in` raises).
AnalysisDict(e, sev, errs, warns) ==
    [kind |-> "dict", has_error |-> e # "", error |-> e,
     severity |-> sev, errors |-> errs, warnings |-> warns]
NonDict(kind) ==
    [kind |-> kind, has_error |-> FALSE, error |-> "",
     severity |-> NoStr, errors |-> NoList, warnings |-> NoList]
NoAnalysis == NonDict("unset")

\* {"error": msg}; a suggestion is the same kind of value: the keys main only
\* prints (suggested_replicas, reason, confidence, recommendations) are left out
ErrorDict(msg) == AnalysisDict(msg, NoStr, NoList, NoList)

\* the analyses should_rollback is applied to
Analyses ==
    { AnalysisDict(e, sev, errs, NoList) :
        e \in {"", "rate limited"}, sev \in Severities, errs \in ErrorLists }

\* The outcome of a call that may raise.
Returned(v) == [raised |-> FALSE, value |-> v]
Raised      == [raised |-> TRUE,  value |-> FALSE]

\* ============================================ log_analyzer.should_rollback
HighErrorThreshold == 3

\* len(errors) > 3
TooManyErrors(n) == n > HighErrorThreshold

\* def should_rollback(analysis: dict) -> bool
ShouldRollback(a) ==
    IF a.has_error THEN Returned(FALSE)
    \* analysis.get("severity", "").upper(): a value that is no str has no upper()
    ELSE IF a.severity.k = "nonstr" THEN Raised
    ELSE LET severity == IF a.severity.k = "missing" THEN <<>> ELSE Upper(a.severity.s) IN
         IF severity = CRITICAL THEN Returned(TRUE)
         \* severity == "HIGH" and len(errors) > 3: len() of a value without a length raises
         ELSE IF severity = HIGH
              THEN IF a.errors.k = "nonsized" THEN Raised
                   ELSE Returned(TooManyErrors(a.errors.n))
              ELSE Returned(FALSE)

\* ================================================== subprocess.run(kubectl)
\* What `kubectl get deployment -o json` printed, as json.loads sees it: text
\* that is no JSON, JSON that is no object, or an object whose "status" is
\* absent, no object, or an object with the three replica counts.
KubectlDoc(kind, status, ready, total, available) ==
    [kind |-> kind, status |-> status, readyReplicas |-> ready,
     replicas |-> total, availableReplicas |-> available]
PlainDoc(kind, status) == KubectlDoc(kind, status, NoNum, NoNum, NoNum)

ReplicaValues == {NoNum, NullNum} \cup {Num(n) : n \in 0..MaxReplicas}

KubectlDocs ==
    {PlainDoc("invalid", "missing"), PlainDoc("nondict", "missing"),
     PlainDoc("dict", "missing"), PlainDoc("dict", "nondict")}
    \cup {KubectlDoc("dict", "dict", r, t, a) :
            r \in ReplicaValues, t \in ReplicaValues, a \in {NoNum, Num(1)}}

\* The outcome of subprocess.run: it raised (kubectl is not installed), or it
\* returned with a return code and the captured stdout.
KubectlRaised    == [kind |-> "raise", returncode |-> 1, stdout |-> PlainDoc("invalid", "missing")]
KubectlExit(rc, doc) == [kind |-> "exit", returncode |-> rc, stdout |-> doc]
KubectlOutcomes ==
    {KubectlRaised} \cup {KubectlExit(rc, d) : rc \in {0, 1}, d \in KubectlDocs}

\* status.get(key, 0)
GetOrZero(v) == IF v.k = "missing" THEN Num(0) ELSE v

\* Python ==  on two JSON numbers-or-null
PyEq(a, b) == a.k = b.k /\ a.n = b.n

\* whether stdout loads as an object whose "status" supports .get
Loads(k) ==
    /\ k.kind = "exit"
    /\ k.returncode = 0
    /\ k.stdout.kind = "dict"
    /\ k.stdout.status \in {"missing", "dict"}

\* =============================== analyze_deployment.check_deployment_health
HealthDict(h, ready, total) == [healthy |-> h, ready_replicas |-> ready, replicas |-> total]

\* return {"healthy": False, "ready_replicas": 0, "replicas": 0}
HealthDefault == HealthDict(FALSE, Num(0), Num(0))

\* ready == total and ready > 0
IsHealthyWithoutPositive(ready, total) == PyEq(ready, total)
IsHealthy(ready, total) == PyEq(ready, total) /\ ready.n > 0

CheckDeploymentHealth(k) ==
    IF ~Loads(k) THEN HealthDefault
    ELSE LET ready == GetOrZero(k.stdout.readyReplicas)
             total == GetOrZero(k.stdout.replicas)
         IN  \* None > 0 raises TypeError, which the except clause catches
             IF PyEq(ready, total) /\ ready.k = "null" THEN HealthDefault
             ELSE HealthDict(IsHealthy(ready, total), ready, total)

\* ================================== replica_suggester.get_current_metrics
MetricsDict(total, ready, available) ==
    [replicas |-> total, ready_replicas |-> ready, available_replicas |-> available]

GetCurrentMetrics(k) ==
    IF ~Loads(k) THEN MetricsDict(Num(0), Num(0), Num(0))
    ELSE MetricsDict(GetOrZero(k.stdout.replicas), GetOrZero(k.stdout.readyReplicas),
                     GetOrZero(k.stdout.availableReplicas))

\* ================================== log_analyzer.fetch_cloudwatch_logs
\* The outcome of the CloudWatch call: it raised, or it returned events whose
\* messages join to a string (the empty string when there are no events).
LogTexts == {"", "ERROR db timeout"}
CloudwatchOutcomes == {[kind |-> "raise", text |-> ""]} \cup
                      {[kind |-> "events", text |-> t] : t \in LogTexts}

FetchCloudwatchLogs(c) == IF c.kind = "raise" THEN "" ELSE c.text

\* ===================================== the completion service (openai)
\* The outcome of openai.ChatCompletion.create followed by json.loads of the
\* reply: the call raised, the reply is no JSON, or the reply loads to `value`.
ServiceFailed      == [kind |-> "fail"]
ServiceInvalidJson == [kind |-> "invalid_json"]
ServiceJson(v)     == [kind |-> "json", value |-> v]

\* What a function returned, whether it raised instead, and whether it
\* contacted the completion service.
Outcome(v, contacted) == [raised |-> FALSE, ret |-> v, contacted |-> contacted]
Escaped(contacted)    == [raised |-> TRUE, ret |-> NoAnalysis, contacted |-> contacted]

\* api_key = api_key or os.getenv("OPENAI_API_KEY"), as the two `if not api_key` do
EffectiveKey(api_key, env) == IF Truthy(api_key) THEN api_key ELSE env

\* the try block: the service call and json.loads, any exception caught
CompletionUnguardedParse(svc, failure) ==
    IF svc.kind = "fail" THEN Outcome(ErrorDict(failure), TRUE)
    ELSE IF svc.kind = "invalid_json" THEN Escaped(TRUE)
    ELSE Outcome(svc.value, TRUE)
Completion(svc, failure) ==
    IF svc.kind = "json" THEN Outcome(svc.value, TRUE)
    ELSE Outcome(ErrorDict(failure), TRUE)

\* ===================================== log_analyzer.analyze_logs_with_ai
AnalyzeLogsWithAi(available, log_text, api_key, env, svc) ==
    IF ~available THEN Outcome(ErrorDict("OpenAI not available"), FALSE)
    ELSE IF ~Truthy(EffectiveKey(api_key, env))
         THEN Outcome(ErrorDict("OPENAI_API_KEY not set"), FALSE)
    ELSE IF log_text = "" THEN Outcome(ErrorDict("No logs to analyze"), FALSE)
    ELSE Completion(svc, "Analysis failed")

\* ================================== replica_suggester.suggest_replica_count
SuggestReplicaCount(available, api_key, env, svc) ==
    IF ~available THEN Outcome(ErrorDict("OpenAI not available"), FALSE)
    ELSE IF ~Truthy(EffectiveKey(api_key, env))
         THEN Outcome(ErrorDict("OPENAI_API_KEY not set"), FALSE)
    ELSE Completion(svc, "Suggestion failed")

\* ============================================ the functions on bounded inputs
FnReplies ==
    {ServiceFailed, ServiceInvalidJson,
     ServiceJson(AnalysisDict("", StrVal(HIGH), ListOf(MaxErrors), NoList)),
     ServiceJson(ErrorDict("rate limited")),
     ServiceJson(NonDict("list"))}

NoCall == [name |-> "none"]

CallShouldRollback ==
    \E a \in Analyses :
        fn' = [name |-> "should_rollback", analysis |-> a, result |-> ShouldRollback(a)]

CallCheckDeploymentHealth ==
    \E k \in KubectlOutcomes :
        fn' = [name |-> "check_deployment_health", kubectl |-> k,
               result |-> CheckDeploymentHealth(k)]

CallAnalyzeLogsWithAi ==
    \E available \in BOOLEAN, log_text \in LogTexts, api_key \in Keys, env \in Keys,
       svc \in FnReplies :
        fn' = [name |-> "analyze_logs_with_ai", available |-> available,
               logs |-> log_text, api_key |-> api_key, env |-> env, service |-> svc,
               result |-> AnalyzeLogsWithAi(available, log_text, api_key, env, svc)]

CallSuggestReplicaCount ==
    \E available \in BOOLEAN, api_key \in Keys, env \in Keys, svc \in FnReplies :
        fn' = [name |-> "suggest_replica_count", available |-> available,
               api_key |-> api_key, env |-> env, service |-> svc,
               result |-> SuggestReplicaCount(available, api_key, env, svc)]

\* ============================================= analyze_deployment.main
NoHealth  == HealthDict(FALSE, NoNum, NoNum)
NoMetrics == MetricsDict(NoNum, NoNum, NoNum)

\* the kubectl outcomes, service replies and analyses one run of main draws from
MainKubectl ==
    {KubectlRaised,
     KubectlExit(1, PlainDoc("invalid", "missing")),
     KubectlExit(0, PlainDoc("invalid", "missing")),
     KubectlExit(0, PlainDoc("dict", "missing")),
     KubectlExit(0, KubectlDoc("dict", "dict", Num(MaxReplicas), Num(MaxReplicas), Num(1))),
     KubectlExit(0, KubectlDoc("dict", "dict", Num(1), Num(MaxReplicas), Num(1)))}

MainAnalyses ==
    {NonDict("list"), NonDict("scalar"), ErrorDict("rate limited")}
    \cup {AnalysisDict("", sev, errs, warns) :
            sev \in {NoStr, NonStr, StrVal(CRITICAL), StrVal(<<"h", "i", "g", "h">>),
                     StrVal(<<"L", "O", "W">>)},
            errs \in {NoList, NonSized, ListOf(HighErrorThreshold),
                      ListOf(HighErrorThreshold + 1)},
            warns \in {NoList, NonSized}}

MainAnalysisReplies ==
    {ServiceFailed, ServiceInvalidJson} \cup {ServiceJson(v) : v \in MainAnalyses}

MainSuggestionReplies ==
    {ServiceFailed, ServiceInvalidJson, ServiceJson(NonDict("list")),
     ServiceJson(NonDict("scalar")), ServiceJson(ErrorDict("rate limited")),
     ServiceJson(AnalysisDict("", NoStr, NoList, NoList))}

InitMain ==
    /\ pc = "start"
    /\ env_key \in Keys
    /\ openai_available \in BOOLEAN
    /\ health = NoHealth
    /\ logs = ""
    /\ analysis = NoAnalysis
    /\ rollback = FALSE
    /\ metrics = NoMetrics
    /\ suggestion = NoAnalysis
    /\ calls = <<>>
    /\ out = <<>>
    /\ exit_code = -1

\* What lines 84-99 of main do with `analysis`: the lines printed, the value
\* of `rollback`, and whether an exception escaped (then main stops there).
Report(lines, rb, crashed) == [lines |-> lines, rollback |-> rb, crashed |-> crashed]

ReportAnalysisIgnoresError(a) ==
    LET head == <<"Severity", "Errors", "Warnings">>
        r    == ShouldRollback([a EXCEPT !.has_error = FALSE])
    IN  IF a.kind # "dict" THEN Report(<<>>, FALSE, TRUE)
        ELSE IF r.raised THEN Report(head, FALSE, TRUE)
        ELSE IF r.value
             THEN Report(head \o <<"Rollback Recommended: YES", "WARNING: Rollback recommended!">>,
                         TRUE, FALSE)
             ELSE Report(head \o <<"Rollback Recommended: NO">>, FALSE, FALSE)
ReportAnalysis(a) ==
    \* "error" not in analysis raises on a scalar; .get raises on a list or string
    IF a.kind # "dict" THEN Report(<<>>, FALSE, TRUE)
    ELSE IF a.has_error THEN Report(<<"Error">>, FALSE, FALSE)
    \* len(errors), len(warnings): the default is [], a value without a length raises
    ELSE IF a.errors.k = "nonsized" THEN Report(<<"Severity">>, FALSE, TRUE)
    ELSE IF a.warnings.k = "nonsized" THEN Report(<<"Severity", "Errors">>, FALSE, TRUE)
    ELSE LET head == <<"Severity", "Errors", "Warnings">>
             r    == ShouldRollback(a)
         IN  IF r.raised THEN Report(head, FALSE, TRUE)
             ELSE IF r.value
                  THEN Report(head \o <<"Rollback Recommended: YES",
                                        "WARNING: Rollback recommended!">>, TRUE, FALSE)
                  ELSE Report(head \o <<"Rollback Recommended: NO">>, FALSE, FALSE)

\* What lines 111-123 of main do with `suggestion`.
ReportSuggestion(sg) ==
    IF sg.kind # "dict" THEN Report(<<>>, FALSE, TRUE)
    ELSE IF sg.has_error THEN Report(<<"Error">>, FALSE, FALSE)
    ELSE Report(<<"Current", "Suggested", "Confidence", "Reason">>, FALSE, FALSE)

\* an exception that nothing catches: the traceback, and exit status 1
Crash ==
    /\ pc' = "exited"
    /\ exit_code' = 1

\* sys.exit(1) if not health.get("healthy"), else sys.exit(0)
ExitCode(h) == IF ~h.healthy THEN 1 ELSE 0

\* lines 69-76: 1. Check deployment health
MainCheckHealth ==
    /\ pc = "start"
    /\ \E k \in MainKubectl :
         /\ health' = CheckDeploymentHealth(k)
         /\ out' = out \o <<"1. Checking deployment health...",
                            IF health'.healthy THEN "Status: Healthy"
                                               ELSE "Status: Unhealthy">>
    /\ calls' = Append(calls, "check_deployment_health")
    /\ pc' = "logs"
    /\ UNCHANGED <<env_key, openai_available, logs, analysis, rollback, metrics,
                   suggestion, exit_code>>

\* lines 79-82, 100-101: fetch the logs when the key is set
MainFetchLogs ==
    /\ pc = "logs"
    /\ Truthy(env_key)
    /\ \E c \in CloudwatchOutcomes :
         /\ logs' = FetchCloudwatchLogs(c)
         /\ IF logs' # ""
            THEN /\ out' = Append(out, "2. Analyzing CloudWatch logs...")
                 /\ pc' = "analyze"
            ELSE /\ out' = out \o <<"2. Analyzing CloudWatch logs...", "No logs found">>
                 /\ pc' = "replicas"
    /\ calls' = Append(calls, "fetch_cloudwatch_logs")
    /\ UNCHANGED <<env_key, openai_available, health, analysis, rollback, metrics,
                   suggestion, exit_code>>

\* lines 102-103: no key, no log analysis
MainSkipLogs ==
    /\ pc = "logs"
    /\ ~Truthy(env_key)
    /\ out' = Append(out, "2. Skipping log analysis")
    /\ pc' = "replicas"
    /\ UNCHANGED <<env_key, openai_available, health, logs, analysis, rollback,
                   metrics, suggestion, calls, exit_code>>

\* line 83: analysis = analyze_logs_with_ai(logs, api_key)
MainAnalyzeLogs ==
    /\ pc = "analyze"
    /\ \E svc \in MainAnalysisReplies :
         LET r == AnalyzeLogsWithAi(openai_available, logs, env_key, env_key, svc) IN
           /\ analysis' = r.ret
           /\ calls' = IF r.contacted THEN Append(calls, "analyze_logs_with_ai") ELSE calls
    /\ pc' = "report"
    /\ UNCHANGED <<env_key, openai_available, health, logs, rollback, metrics,
                   suggestion, out, exit_code>>

\* lines 84-99: report the analysis and the rollback recommendation
MainReportAnalysis ==
    /\ pc = "report"
    /\ LET r == ReportAnalysis(analysis) IN
         /\ out' = out \o r.lines
         /\ rollback' = r.rollback
         /\ IF r.crashed THEN Crash ELSE pc' = "replicas" /\ UNCHANGED exit_code
    /\ UNCHANGED <<env_key, openai_available, health, logs, analysis, metrics,
                   suggestion, calls>>

\* lines 106-108: metrics = get_current_metrics(namespace=namespace)
MainGetMetrics ==
    /\ pc = "replicas"
    /\ Truthy(env_key)
    /\ \E k \in MainKubectl : metrics' = GetCurrentMetrics(k)
    /\ out' = Append(out, "3. Analyzing replica count...")
    /\ calls' = Append(calls, "get_current_metrics")
    /\ pc' = "suggest"
    /\ UNCHANGED <<env_key, openai_available, health, logs, analysis, rollback,
                   suggestion, exit_code>>

\* line 106, api_key falsy: step 3 is skipped
MainSkipReplicas ==
    /\ pc = "replicas"
    /\ ~Truthy(env_key)
    /\ pc' = "complete"
    /\ UNCHANGED <<env_key, openai_available, health, logs, analysis, rollback,
                   metrics, suggestion, calls, out, exit_code>>

\* lines 109-123: suggestion = suggest_replica_count(metrics, api_key=api_key), reported
MainSuggestReplicas ==
    /\ pc = "suggest"
    /\ \E svc \in MainSuggestionReplies :
         LET r  == SuggestReplicaCount(openai_available, env_key, env_key, svc)
             rp == ReportSuggestion(r.ret)
         IN
           /\ suggestion' = r.ret
           /\ calls' = IF r.contacted THEN Append(calls, "suggest_replica_count") ELSE calls
           /\ out' = out \o rp.lines
           /\ IF rp.crashed THEN Crash ELSE pc' = "complete" /\ UNCHANGED exit_code
    /\ UNCHANGED <<env_key, openai_available, health, logs, analysis, rollback, metrics>>

\* lines 125-131: print "Analysis complete" and exit
MainComplete ==
    /\ pc = "complete"
    /\ out' = Append(out, "Analysis complete")
    /\ exit_code' = ExitCode(health)
    /\ pc' = "exited"
    /\ UNCHANGED <<env_key, openai_available, health, logs, analysis, rollback,
                   metrics, suggestion, calls>>

\* ============================================================ specifications
\* the parts of the state a specification does not use
ApiOff  == ideas_storage = <<>> /\ request = NoMessage /\ response = NoMessage /\ created = <<>>
MainOff ==
    /\ pc = "off" /\ env_key = JNull /\ openai_available = FALSE /\ health = NoHealth
    /\ logs = "" /\ analysis = NoAnalysis /\ rollback = FALSE /\ metrics = NoMetrics
    /\ suggestion = NoAnalysis /\ calls = <<>> /\ out = <<>> /\ exit_code = -1
FnOff   == fn = NoCall

\* the Ideas API
Init == InitApi /\ MainOff /\ FnOff
Next ==
    \/ health_check /\ UNCHANGED <<mainVars, fn>>
    \/ get_ideas /\ UNCHANGED <<mainVars, fn>>
    \/ create_idea /\ UNCHANGED <<mainVars, fn>>
Spec == Init /\ [][Next]_vars

\* one run of analyze_deployment.main
InitMainRun == InitMain /\ ApiOff /\ FnOff
NextMain ==
    \/ MainCheckHealth /\ UNCHANGED <<apiVars, fn>>
    \/ MainFetchLogs /\ UNCHANGED <<apiVars, fn>>
    \/ MainSkipLogs /\ UNCHANGED <<apiVars, fn>>
    \/ MainAnalyzeLogs /\ UNCHANGED <<apiVars, fn>>
    \/ MainReportAnalysis /\ UNCHANGED <<apiVars, fn>>
    \/ MainGetMetrics /\ UNCHANGED <<apiVars, fn>>
    \/ MainSkipReplicas /\ UNCHANGED <<apiVars, fn>>
    \/ MainSuggestReplicas /\ UNCHANGED <<apiVars, fn>>
    \/ MainComplete /\ UNCHANGED <<apiVars, fn>>
SpecMain == InitMainRun /\ [][NextMain]_vars

\* the functions, each applied to every input of its bounded set
InitFn == FnOff /\ ApiOff /\ MainOff
NextFn ==
    \/ CallShouldRollback /\ UNCHANGED <<apiVars, mainVars>>
    \/ CallCheckDeploymentHealth /\ UNCHANGED <<apiVars, mainVars>>
    \/ CallAnalyzeLogsWithAi /\ UNCHANGED <<apiVars, mainVars>>
    \/ CallSuggestReplicaCount /\ UNCHANGED <<apiVars, mainVars>>
SpecFn == InitFn /\ [][NextFn]_vars

\* ===================================================================== claims
Ids(storage) == [i \in DOMAIN storage |-> storage[i].id]

\* C1, as the claim states it: POST /ideas answers 200 with an idea whose title
\* and description equal the submitted ones, for every description the request
\* model accepts (None included), together with an auto-generated id.
C1_DescriptionEchoed ==
    response.endpoint = "POST /ideas" =>
        /\ response.status = 200
        /\ response.body.idea.title = request.body.title
        /\ response.body.idea.description = request.body.description

\* C1, amended: POST /ideas answers 200 with an idea whose title equals the
\* submitted title, whose description equals the submitted description when
\* that is a string and is the empty string when it is None, and whose id is
\* new: the idea is the last of the storage and no earlier idea has its id.
C1_CreateReturnsIdea ==
    response.endpoint = "POST /ideas" =>
        LET idea == response.body.idea
            n    == Len(ideas_storage)
        IN  /\ response.status = 200
            /\ idea.title = request.body.title
            /\ idea.description = IF request.body.description.null
                                  THEN JStr("") ELSE request.body.description
            /\ ideas_storage[n] = idea
            /\ \A i \in 1..(n - 1) : ideas_storage[i].id # idea.id

C1_Witness ==
    /\ response.endpoint = "POST /ideas"
    /\ request.body.description = JNull
    /\ response.body.idea.description = JStr("")
    /\ Len(created) >= 2

\* C2: in every reachable state the storage, which is what GET /ideas returns,
\* is the three seed ideas followed by the ideas created so far in creation
\* order; a GET /ideas response has status 200, that list as 'ideas' and its
\* length as 'count'; and GET /ideas leaves the storage unchanged.
C2_GetIdeasListsAll ==
    /\ [](/\ IdeasBody(ideas_storage).ideas = SeedIdeas \o created
          /\ response.endpoint = "GET /ideas" =>
                /\ response.status = 200
                /\ response.body.ideas = SeedIdeas \o created
                /\ response.body.count = Len(SeedIdeas) + Len(created))
    /\ [][get_ideas => ideas_storage' = ideas_storage]_vars

C2_Witness ==
    /\ response.endpoint = "GET /ideas"
    /\ Len(created) >= 2
    /\ created[1].title # created[2].title
    /\ response.body.count = Len(SeedIdeas) + Len(created)

\* C5: a GET /health response has status 200 and the body {"status": "ok"},
\* however many ideas have been created, and GET /health leaves the storage
\* unchanged.
C5_HealthOk ==
    /\ [](response.endpoint = "GET /health" =>
            /\ response.status = 200
            /\ response.body = [status |-> "ok"])
    /\ [][health_check => ideas_storage' = ideas_storage]_vars

C5_Witness ==
    /\ response.endpoint = "GET /health"
    /\ Len(created) >= 2

\* C6: the ids of the storage are pairwise distinct and strictly increasing in
\* storage order; each POST /ideas appends exactly one idea, whose id is the
\* largest id so far plus one, and leaves every earlier entry as it was; the id
\* generator gives 1 on an empty storage.
C6_IdsIncrease ==
    /\ [](/\ \A i, j \in DOMAIN ideas_storage :
                i < j => ideas_storage[i].id < ideas_storage[j].id
          /\ NewId(<<>>) = 1)
    /\ [][create_idea =>
            LET n == Len(ideas_storage) IN
              /\ Len(ideas_storage') = n + 1
              /\ SubSeq(ideas_storage', 1, n) = ideas_storage
              /\ \A i \in 1..n : ideas_storage'[n + 1].id >= ideas_storage[i].id + 1
              /\ \E i \in 1..n : ideas_storage'[n + 1].id = ideas_storage[i].id + 1
         ]_vars

C6_Witness ==
    /\ Len(created) >= 2
    /\ Ids(ideas_storage)[Len(SeedIdeas) + 1] = Len(SeedIdeas) + 1
    /\ Ids(ideas_storage)[Len(SeedIdeas) + 2] = Len(SeedIdeas) + 2

\* C3, as the claim states it: should_rollback returns, and returns True
\* exactly when the analysis has no 'error' key and its severity upper-cased
\* is CRITICAL, or is HIGH with more than 3 errors; False in every other case.
C3_ShouldRollbackIff ==
    fn.name = "should_rollback" =>
        LET a   == fn.analysis
            sev == IF a.severity.k = "str" THEN Upper(a.severity.s) ELSE <<>>
        IN  /\ ~fn.result.raised
            /\ fn.result.value <=>
                 /\ ~a.has_error
                 /\ \/ sev = CRITICAL
                    \/ sev = HIGH /\ a.errors.n > HighErrorThreshold

\* C7: check_deployment_health reports healthy exactly when kubectl returned
\* exit code 0, its output loaded as a JSON object with a status, and
\* readyReplicas equals replicas and is greater than 0 (a missing field being
\* 0); when kubectl returns another exit code, or the call raises, or the output
\* is no JSON, it returns exactly {healthy: False, ready_replicas: 0, replicas: 0}.
C7_HealthyIff ==
    fn.name = "check_deployment_health" =>
        LET k     == fn.kubectl
            ready == IF k.stdout.readyReplicas.k = "missing" THEN Num(0)
                     ELSE k.stdout.readyReplicas
            total == IF k.stdout.replicas.k = "missing" THEN Num(0) ELSE k.stdout.replicas
        IN  /\ fn.result.healthy <=>
                 /\ k.kind = "exit" /\ k.returncode = 0
                 /\ k.stdout.kind = "dict" /\ k.stdout.status = "dict"
                 /\ ready.k = "int" /\ total.k = "int"
                 /\ ready.n = total.n /\ ready.n > 0
            /\ (k.kind = "raise" \/ k.returncode # 0 \/ k.stdout.kind = "invalid")
                 => fn.result = [healthy |-> FALSE, ready_replicas |-> Num(0),
                                 replicas |-> Num(0)]

C7_Witness ==
    /\ fn.name = "check_deployment_health"
    /\ fn.result.healthy
    /\ fn.result.replicas = Num(MaxReplicas)

\* C10: analyze_logs_with_ai and suggest_replica_count never raise; they return
\* {"error": ...} without contacting the completion service when the OpenAI
\* library is unavailable, else when neither the argument nor OPENAI_API_KEY
\* gives a key, else (analyze_logs_with_ai) when the logs are empty; otherwise
\* they contact the service, and return a dictionary with an 'error' key when
\* the call fails or its reply is no JSON.
C10_NeverRaise ==
    fn.name \in {"analyze_logs_with_ai", "suggest_replica_count"} =>
        LET r       == fn.result
            nokey   == ~Truthy(fn.api_key) /\ ~Truthy(fn.env)
            nologs  == fn.name = "analyze_logs_with_ai" /\ fn.logs = ""
            isError == r.ret.kind = "dict" /\ r.ret.has_error
        IN  /\ ~r.raised
            /\ ~fn.available =>
                 isError /\ r.ret.error = "OpenAI not available" /\ ~r.contacted
            /\ (fn.available /\ nokey) =>
                 isError /\ r.ret.error = "OPENAI_API_KEY not set" /\ ~r.contacted
            /\ (fn.available /\ ~nokey /\ nologs) =>
                 isError /\ r.ret.error = "No logs to analyze" /\ ~r.contacted
            /\ (fn.available /\ ~nokey /\ ~nologs) =>
                 /\ r.contacted
                 /\ fn.service.kind # "json" => isError

C10_Witness ==
    /\ fn.name = "analyze_logs_with_ai"
    /\ fn.service.kind = "invalid_json"
    /\ fn.result.contacted
    /\ fn.result.ret.has_error

\* the external calls of main, in the order the code makes them
CallOrder ==
    <<"check_deployment_health", "fetch_cloudwatch_logs", "analyze_logs_with_ai",
      "get_current_metrics", "suggest_replica_count">>

Position(c) == CHOOSE i \in DOMAIN CallOrder : CallOrder[i] = c

\* the calls performed so far are in the fixed order, none twice
CallsInOrder ==
    /\ Range(calls) \subseteq Range(CallOrder)
    /\ \A i, j \in DOMAIN calls : i < j => Position(calls[i]) < Position(calls[j])

Printed(line) == line \in Range(out)

\* C4, as the claim states it: a run of main ends with exit code 1 exactly
\* when the health check reported unhealthy, and with exit code 0 otherwise.
C4_ExitCodeIsHealth ==
    pc = "exited" => exit_code = IF health.healthy THEN 0 ELSE 1

\* C8, as the claim states it: the external calls happen in the fixed order,
\* each at most once; the health check is always performed; without a key only
\* the health check is performed; and a run that has exited has reached
\* 'Analysis complete'.
C8_SingleShotRun ==
    /\ CallsInOrder
    /\ pc # "start" => calls # <<>> /\ calls[1] = "check_deployment_health"
    /\ ~Truthy(env_key) => Range(calls) \subseteq {"check_deployment_health"}
    /\ pc = "exited" => Printed("Analysis complete")

\* C9: 'Rollback Recommended: YES' is printed only when the key is set, the
\* fetched logs are non-empty, the analysis is a dictionary without an 'error'
\* key and should_rollback returned True for it; and when the logs are empty
\* (fetch failed, returned nothing, or was skipped) or the analysis has an
\* 'error' key, neither YES nor NO is printed, whatever the health.
C9_RollbackOnlyOnAnalysis ==
    /\ Printed("Rollback Recommended: YES") =>
         /\ Truthy(env_key)
         /\ logs # ""
         /\ analysis.kind = "dict" /\ ~analysis.has_error
         /\ ShouldRollback(analysis) = Returned(TRUE)
         /\ rollback
    /\ (logs = "" \/ analysis.has_error) =>
         /\ ~Printed("Rollback Recommended: YES")
         /\ ~Printed("Rollback Recommended: NO")

C9_Witness ==
    /\ pc = "exited"
    /\ Printed("Rollback Recommended: YES")
    /\ ~health.healthy

====
